---- MODULE Spec2Model ----
(***************************************************************************)
(* The order book view (OrderBook component) and its streaming connection  *)
(* manager (useBinanceSocket hook) as one state machine.                   *)
(*                                                                         *)
(* Every handler (a WebSocket event, a timer, a frame callback, a React    *)
(* render with its effects, a call of close()) runs to completion on the   *)
(* single JavaScript thread, so each is one action.                        *)
(***************************************************************************)
EXTENDS Integers, Sequences, FiniteSets, TLC

(* ------------------------------ bounds -------------------------------- *)

\* transports (WebSocket objects) a hook instance creates over its life
MaxWs == 4
\* runs of the connection effect over the life of a hook instance
MaxRuns == 3
\* transports the hook creates over the life of an OrderBook
AppMaxWs == 2
\* runs of the connection effect over the life of an OrderBook
AppMaxRuns == 2
\* transports of one uninterrupted chain of reconnects
MaxChain == 9
\* depth updates delivered to onDepthUpdate over the life of the component
MaxMsgs == 2
\* transports of a chain of reconnects that messages are routed over
MaxRouterWs == 2

(* -------------------------- program constants ------------------------- *)

\* useRef(500) and the reset in onopen
InitialBackoff == 500
\* Math.min(..., 30000)
BackoffCeiling == 30000
\* mapToSortedArray(..., 25)
DepthLimit == 25

(* ----------------------- numbers (JavaScript) -------------------------- *)
\* backoffRef.current is a double; the values it takes (500 * 1.8^k below
\* the ceiling) are modelled as exact fractions n/d in lowest terms.

RECURSIVE GCD(_, _)
GCD(a, b) == IF b = 0 THEN a ELSE GCD(b, a % b)

Frac(n, d) == LET g == GCD(n, d) IN [n |-> n \div g, d |-> d \div g]

FromInt(i) == [n |-> i, d |-> 1]

FracMul(x, y) == Frac(x.n * y.n, x.d * y.d)

FracLeq(x, y) == x.n * y.d <= y.n * x.d

FracMin(x, y) == IF FracLeq(x, y) THEN x ELSE y

\* the literal 1.8
BackoffFactor == Frac(18, 10)

\* a faulty variant: the ceiling is not applied
NextBackoffNoCeiling(b) == FracMul(b, BackoffFactor)

\* backoffRef.current = Math.min(backoffRef.current * 1.8, 30000)
NextBackoff(b) == FracMin(FracMul(b, BackoffFactor), FromInt(BackoffCeiling))

(* ------------------------------- state --------------------------------- *)

VARIABLES
    ws,            \* the WebSocket objects created so far, in creation order
    wsRef,         \* wsRef.current: an index of ws, or 0 for null
    backoffRef,    \* backoffRef.current
    closedByUser,  \* closedByUser.current
    run,           \* the number of the latest run of the connection effect
    mounted,       \* the latest run's `mounted`; earlier runs' are false
    timers,        \* pending setTimeout(connect, t) calls
    bidsRef,       \* bidsRef.current: price -> quantity
    asksRef,       \* asksRef.current
    version,       \* the version state of OrderBook
    pending,       \* pending.current of scheduleRender
    raf,           \* frame callbacks requested and not yet run
    bids,          \* the memoised bid rows of the last render
    asks,          \* the memoised ask rows of the last render
    memoVersion,   \* the version the useMemo pair was last computed for
    fails,         \* history: reconnects scheduled since the last onopen
    openedAfter,   \* history: -1, or fails at the last onopen since a failure
    closeCalled,   \* history: the consumer has called close()
    prevDelay,     \* history: the delay the latest run last scheduled since
                   \*   it began and since a transport of its own opened
    calls,         \* history: scheduleRender calls since the last frame tick
    dirty,         \* history: a depth update applied, no frame callback since
    history,       \* history: the ledgers after each whole depth message
    last           \* history: what the last handler did

hookVars == <<ws, wsRef, backoffRef, closedByUser, run, mounted, timers>>
bookVars == <<bidsRef, asksRef, version, pending, raf, bids, asks, memoVersion>>
hookHistory == <<fails, openedAfter, closeCalled, prevDelay>>
bookHistory == <<calls, dirty, history>>
vars == <<hookVars, bookVars, hookHistory, bookHistory, last>>

NoDelay == [n |-> 0, d |-> 1]

\* the record of a handler: op, the transport w it concerns, and what held
\* before it ran; the handlers fill in what they did
Quiet(op, w) ==
    [op |-> op, w |-> w,
     was |-> "",          \* onclose: the transport's state before the event
     sched |-> FALSE,     \* onclose: a reconnect timer was scheduled
     delay |-> NoDelay,   \* onclose: the delay given to setTimeout
     made |-> 0,          \* the transport this handler constructed, or 0
     late |-> FALSE,      \* timer: close() was called since it was scheduled
     cb |-> "none",       \* onmessage: the callback invoked
     fired |-> 0,         \* tick: frame callbacks run
     calls |-> 0,         \* tick: scheduleRender calls since the tick before
     preClosed |-> FALSE, \* onclose: closedByUser.current before it ran
     preOpened |-> -1,    \* onclose: openedAfter before it ran
     preFails |-> 0,      \* onclose: fails before it ran
     preCalled |-> closeCalled,
     msg |-> <<>>,        \* RouterMessage: ev.data
     reg |-> <<>>,        \* RouterMessage: the callbacks passed
     out |-> <<>>,        \* RouterMessage: what ws.onmessage did
     afterBad |-> FALSE]  \* RouterMessage: the message before failed to decode

(* --------------------------- the transports ---------------------------- *)

\* `mounted` as the closures of effect run r see it
Mounted(r) == mounted /\ r = run

\* new WebSocket(url), by effect run r
NewWs(r) == [state |-> "CONNECTING", run |-> r]

\* WebSocket.close(): starts the closing handshake unless already closing
WsCloseCall(q, w) ==
    IF q[w].state \in {"CONNECTING", "OPEN"}
    THEN [q EXCEPT ![w].state = "CLOSING"]
    ELSE q

\* the three refs the hook's handlers share
Cur == [ws |-> ws, wsRef |-> wsRef, closedByUser |-> closedByUser]

Commit(s) ==
    /\ ws' = s.ws
    /\ wsRef' = s.wsRef
    /\ closedByUser' = s.closedByUser

\* connect(), past its `mounted` check
ConnectFn(s, r) ==
    [s EXCEPT !.ws = Append(s.ws, NewWs(r)), !.wsRef = Len(s.ws) + 1]

\* the cleanup the connection effect returns
EffectCleanup(s) ==
    [s EXCEPT !.closedByUser = TRUE,
              !.ws = IF s.wsRef # 0 /\ s.ws[s.wsRef].state = "OPEN"
                     THEN WsCloseCall(s.ws, s.wsRef)
                     ELSE s.ws,
              !.wsRef = 0]

\* the close() the hook returns
CloseFn(s) ==
    [s EXCEPT !.closedByUser = TRUE,
              !.ws = IF s.wsRef # 0 THEN WsCloseCall(s.ws, s.wsRef) ELSE s.ws]

\* the body of the connection effect, as run number r
EffectSetup(s, r) == ConnectFn([s EXCEPT !.closedByUser = FALSE], r)

(* ------------------------------ the ledgers ---------------------------- *)
\* applyDepthDelta and mapToSortedArray live in ../lib/orderbook; they are
\* modelled from the specification of PriceLevelLedger.  A price string is
\* modelled by a small natural, a ledger by a function on the prices present.

EmptyLedger == [p \in {} |-> 0]

SetLevel(m, p, q) ==
    IF q > 0
    THEN [x \in DOMAIN m \cup {p} |-> IF x = p THEN q ELSE m[x]]
    ELSE [x \in DOMAIN m \ {p} |-> m[x]]

RECURSIVE ApplyDepthDelta(_, _)
ApplyDepthDelta(m, changes) ==
    IF changes = <<>>
    THEN m
    ELSE ApplyDepthDelta(SetLevel(m, Head(changes)[1], Head(changes)[2]),
                         Tail(changes))

Best(S, side) ==
    IF side = "bids"
    THEN CHOOSE p \in S : \A o \in S : o <= p
    ELSE CHOOSE p \in S : \A o \in S : p <= o

RECURSIVE SortedRows(_, _, _, _, _)
SortedRows(m, S, side, limit, cum) ==
    IF S = {} \/ limit = 0
    THEN <<>>
    ELSE LET p == Best(S, side) IN
         <<[price |-> p, qty |-> m[p], cum |-> cum + m[p]]>>
         \o SortedRows(m, S \ {p}, side, limit - 1, cum + m[p])

MapToSortedArray(m, side, limit) == SortedRows(m, DOMAIN m, side, limit, 0)

(* ------------------------------ messages ------------------------------- *)

\* sample depth payloads: fields b and a of a depthUpdate event
DepthMsgs ==
    { [b |-> << <<2, 1>> >>,            a |-> << <<1, 2>> >>],
      [b |-> << <<2, 0>>, <<1, 1>> >>,  a |-> << <<1, 0>>, <<2, 1>> >>] }

Payloads ==
    {[e |-> "depthUpdate", b |-> d.b, a |-> d.a] : d \in DepthMsgs}
    \cup {[e |-> "aggTrade"], [e |-> "kline"], [E |-> 1]}

\* a JSON value that is no object: a number, a string, true, false or null
NotAnObject == [primitive |-> TRUE]

IsObject(v) == "primitive" \notin DOMAIN v

\* the value of a missing property
Undefined == [undefined |-> TRUE]

\* ev.data: text JSON.parse rejects, or the value it returns
RawMessages ==
    {[bad |-> TRUE]}
    \cup {[bad |-> FALSE, json |-> p] : p \in Payloads}
    \cup {[bad |-> FALSE, json |-> [stream |-> "s", data |-> p]] : p \in Payloads}

\* further values JSON.parse returns: a payload with an empty e, an envelope
\* without data or around a value that is no object, a payload that carries
\* a stream field itself, a value that is no object
OddValues ==
    {[e |-> ""], [stream |-> "s"], [stream |-> "s", data |-> NotAnObject],
     [stream |-> "s", data |-> [e |-> ""]],
     [stream |-> "s", e |-> "aggTrade"], NotAnObject}

\* the messages the router is tried on
RouterMessages ==
    RawMessages \cup {[bad |-> FALSE, json |-> v] : v \in OddValues}

\* obj.f
Get(obj, f) == IF f \in DOMAIN obj THEN obj[f] ELSE Undefined

\* a faulty variant: an envelope is routed as it arrived
UnwrapNever(parsed) == parsed

\* 'stream' in parsed ? parsed.data : parsed
Unwrap(parsed) ==
    IF "stream" \in DOMAIN parsed THEN Get(parsed, "data") ELSE parsed

\* a callback prop: not passed, or a function that returns or that throws
CallbackKinds == {"absent", "returns", "throws"}

Registrations == [trade : CallbackKinds, depth : CallbackKinds]

\* the callbacks OrderBook passes: onDepthUpdate, and no onAggTrade
OrderBookCallbacks == [trade |-> "absent", depth |-> "returns"]

\* what a run of the try block did: the callbacks called, in order, and
\* whether it ended by an exception
Ran(cs, th) == [calls |-> cs, thrown |-> th]

\* cb?.(payload)
Invoke(name, fn, payload) ==
    IF fn = "absent"
    THEN Ran(<<>>, FALSE)
    ELSE Ran(<<[fn |-> name, arg |-> payload]>>, fn = "throws")

\* the try block of ws.onmessage.  JSON.parse throws on text that is no
\* JSON, and the `in` operator throws on a value that is no object.
TryBlock(raw, reg) ==
    IF raw.bad \/ ~IsObject(raw.json)
    THEN Ran(<<>>, TRUE)
    ELSE LET payload == Unwrap(raw.json) IN
         IF "e" \notin DOMAIN payload \/ payload.e = ""
         THEN Ran(<<>>, FALSE)
         ELSE IF payload.e = "aggTrade"
         THEN Invoke("onAggTrade", reg.trade, payload)
         ELSE IF payload.e = "depthUpdate"
         THEN Invoke("onDepthUpdate", reg.depth, payload)
         ELSE Ran(<<>>, FALSE)

\* a faulty variant: ws.onmessage without its try and catch
OnMessageNoCatch(raw, reg) ==
    LET ran == TryBlock(raw, reg) IN
    [calls |-> ran.calls, logged |-> FALSE, escaped |-> ran.thrown]

\* ws.onmessage: the try block, and the catch that logs what it threw;
\* escaped tells whether an exception leaves the handler
OnMessage(raw, reg) ==
    LET ran == TryBlock(raw, reg) IN
    [calls |-> ran.calls, logged |-> ran.thrown, escaped |-> FALSE]

\* the callback a run of ws.onmessage invoked
CallbackOf(done) ==
    IF done.calls = <<>> THEN "none"
    ELSE IF done.calls[1].fn = "onAggTrade" THEN "trade"
    ELSE "depth"

\* ws.onmessage under OrderBook, message by message
OrderBookRouting ==
    [raw \in RawMessages |-> CallbackOf(OnMessage(raw, OrderBookCallbacks))]

\* the callback ws.onmessage invokes for ev.data = raw under OrderBook
Routed(raw) == OrderBookRouting[raw]

(* ----------------------------- OrderBook ------------------------------- *)

\* a faulty variant: the ask side of a message is not applied
DepthAppliedBidsOnly(d) ==
    [b |-> ApplyDepthDelta(bidsRef, d.b), a |-> asksRef]

\* the two applyDepthDelta calls of onDepthUpdate
DepthApplied(d) ==
    [b |-> ApplyDepthDelta(bidsRef, d.b), a |-> ApplyDepthDelta(asksRef, d.a)]

\* a faulty variant: scheduleRender without its pending check
ShouldScheduleAlways == TRUE

\* scheduleRender: if (pending.current) return
ShouldSchedule == ~pending

\* a faulty variant: the frame callback leaves pending.current set
FrameCallbackPendingKept == pending

\* the frame callback: pending.current = false
FrameCallbackPending == FALSE

\* onDepthUpdate(d), d not null
OnDepthUpdate(d) ==
    /\ bidsRef' = DepthApplied(d).b
    /\ asksRef' = DepthApplied(d).a
    /\ IF ShouldSchedule
       THEN pending' = TRUE /\ raf' = raf + 1
       ELSE UNCHANGED <<pending, raf>>
    /\ calls' = calls + 1
    /\ dirty' = TRUE
    /\ history' = Append(history,
           [b |-> ApplyDepthDelta(history[Len(history)].b, d.b),
            a |-> ApplyDepthDelta(history[Len(history)].a, d.a)])
    /\ UNCHANGED <<version, bids, asks, memoVersion>>

\* bids[0]?.price ?? 0
TopBid == IF bids = <<>> THEN 0 ELSE bids[1].price

\* asks[0]?.price ?? 0
TopAsk == IF asks = <<>> THEN 0 ELSE asks[1].price

\* topAsk && topBid ? topAsk - topBid : 0
SpreadShown == IF TopAsk # 0 /\ TopBid # 0 THEN TopAsk - TopBid ELSE 0

(* ------------------------------- actions ------------------------------- *)

Init ==
    /\ closeCalled = FALSE
    /\ fails = 0
    /\ openedAfter = -1
    /\ prevDelay = NoDelay
    /\ closedByUser = FALSE
    /\ run = 1
    /\ mounted = TRUE
    /\ ws = <<NewWs(1)>>
    /\ wsRef = 1
    /\ backoffRef = FromInt(InitialBackoff)
    /\ timers = {}
    /\ bidsRef = EmptyLedger
    /\ asksRef = EmptyLedger
    /\ version = 0
    /\ pending = FALSE
    /\ raf = 0
    /\ bids = <<>>
    /\ asks = <<>>
    /\ memoVersion = 0
    /\ calls = 0
    /\ dirty = FALSE
    /\ history = <<[b |-> EmptyLedger, a |-> EmptyLedger]>>
    /\ last = Quiet("mount", 1)

\* a faulty variant: onopen leaves the backoff as it is
OpenBackoffKept == backoffRef

\* ws.onopen: backoffRef.current = 500
OpenBackoff == FromInt(InitialBackoff)

WsOpen(w) ==
    /\ w \in DOMAIN ws
    /\ ws[w].state = "CONNECTING"
    /\ ws' = [ws EXCEPT ![w].state = "OPEN"]
    /\ backoffRef' = OpenBackoff
    /\ fails' = 0
    /\ openedAfter' = IF openedAfter > fails THEN openedAfter ELSE fails
    /\ prevDelay' = IF ws[w].run = run THEN NoDelay ELSE prevDelay
    /\ last' = Quiet("onopen", w)
    /\ UNCHANGED <<wsRef, closedByUser, run, mounted, timers, bookVars,
                   closeCalled, bookHistory>>

\* a faulty variant: onclose does not look at closedByUser
ShouldReconnectIgnoringClose(w) == Mounted(ws[w].run)

\* a faulty variant: onclose reconnects only a transport that had opened
ShouldReconnectOpenedOnly(w) ==
    ~closedByUser /\ Mounted(ws[w].run) /\ ws[w].state # "CONNECTING"

\* ws.onclose: if (closedByUser.current || !mounted) return
ShouldReconnect(w) == ~closedByUser /\ Mounted(ws[w].run)

\* the close event of transport w: ws.onerror only logs, ws.onclose follows
WsClose(w) ==
    /\ w \in DOMAIN ws
    /\ ws[w].state # "CLOSED"
    /\ ws' = [ws EXCEPT ![w].state = "CLOSED"]
    /\ wsRef' = 0
    /\ IF ShouldReconnect(w)
       THEN /\ timers' = timers \cup
                  {[by |-> w, run |-> ws[w].run, delay |-> backoffRef,
                    closedSince |-> FALSE]}
            /\ backoffRef' = NextBackoff(backoffRef)
            /\ fails' = fails + 1
            /\ openedAfter' = -1
            /\ prevDelay' = backoffRef
       ELSE UNCHANGED <<timers, backoffRef, fails, openedAfter, prevDelay>>
    /\ last' = [Quiet("onclose", w) EXCEPT
                   !.was = ws[w].state,
                   !.preClosed = closedByUser,
                   !.preOpened = openedAfter,
                   !.preFails = fails,
                   !.sched = ShouldReconnect(w),
                   !.delay = IF ShouldReconnect(w) THEN backoffRef ELSE NoDelay]
    /\ UNCHANGED <<closedByUser, run, mounted, bookVars,
                   closeCalled, bookHistory>>

\* a faulty variant: connect without its mounted check
ConnectAllowedAlways(r) == TRUE

\* connect: if (!mounted) return
ConnectAllowed(r) == Mounted(r)

\* a faulty variant: setInterval in place of setTimeout
PendingAfterInterval(t) == timers

\* setTimeout: a timer fires once
PendingAfter(t) == timers \ {t}

\* setTimeout(connect, t) fires; at most `limit` transports are modelled
TimerFire(t, limit) ==
    /\ t \in timers
    /\ ConnectAllowed(t.run) => Len(ws) < limit
    /\ timers' = PendingAfter(t)
    /\ IF ConnectAllowed(t.run)
       THEN Commit(ConnectFn(Cur, t.run))
       ELSE UNCHANGED <<ws, wsRef, closedByUser>>
    /\ last' = [Quiet("timer", t.by) EXCEPT
                   !.made = IF ConnectAllowed(t.run) THEN Len(ws) + 1 ELSE 0,
                   !.late = t.closedSince]
    /\ UNCHANGED <<backoffRef, run, mounted, bookVars, hookHistory, bookHistory>>

\* the consumer calls the close() the hook returned
Close ==
    /\ Commit(CloseFn(Cur))
    /\ closeCalled' = TRUE
    /\ timers' = {[t EXCEPT !.closedSince = TRUE] : t \in timers}
    /\ last' = Quiet("close", wsRef)
    /\ UNCHANGED <<backoffRef, run, mounted, bookVars,
                   fails, openedAfter, prevDelay, bookHistory>>

\* what every re-run of the connection effect does besides the three refs
Rerun(runs, limit) ==
    /\ mounted
    /\ run < runs
    /\ Len(ws) < limit
    /\ run' = run + 1
    /\ mounted' = TRUE
    /\ last' = [Quiet("rerun", wsRef) EXCEPT !.made = Len(ws) + 1]
    /\ prevDelay' = NoDelay
    /\ UNCHANGED <<backoffRef, timers, fails, openedAfter, closeCalled>>

\* a dependency of the connection effect changed (createUrl, onAggTrade or
\* onDepthUpdate): its cleanup runs, then its body
EffectRerun ==
    /\ Rerun(MaxRuns, MaxWs)
    /\ Commit(EffectSetup(EffectCleanup(Cur), run + 1))
    /\ UNCHANGED <<bookVars, bookHistory>>

\* the component that called the hook unmounts: the cleanup runs
Unmount ==
    /\ mounted
    /\ Commit(EffectCleanup(Cur))
    /\ mounted' = FALSE
    /\ last' = Quiet("unmount", wsRef)
    /\ UNCHANGED <<backoffRef, run, timers, bookVars, hookHistory, bookHistory>>

\* ws.onmessage of transport w, ev.data = raw, up to the callback
Deliver(w, raw) ==
    /\ w \in DOMAIN ws
    /\ ws[w].state = "OPEN"
    /\ last' = [Quiet("onmessage", w) EXCEPT !.cb = Routed(raw)]
    /\ UNCHANGED <<hookVars, hookHistory>>

\* ws.onmessage, whatever the consumer's callbacks do
WsMessage(w, raw) ==
    /\ Deliver(w, raw)
    /\ UNCHANGED <<bookVars, bookHistory>>

\* useBinanceSocket under any consumer
Next ==
    \/ \E w \in DOMAIN ws : WsOpen(w)
    \/ \E w \in DOMAIN ws : WsClose(w)
    \/ \E t \in timers : TimerFire(t, MaxWs)
    \/ Close
    \/ EffectRerun
    \/ Unmount
    \/ \E w \in DOMAIN ws, raw \in RawMessages : WsMessage(w, raw)

Spec == Init /\ [][Next]_vars

\* useBinanceSocket left alone by its consumer: no close(), no re-run of the
\* effect, no unmount
ChainNext ==
    \/ \E w \in DOMAIN ws : WsOpen(w)
    \/ \E w \in DOMAIN ws : WsClose(w)
    \/ \E t \in timers : TimerFire(t, MaxChain)
    \/ \E w \in DOMAIN ws, raw \in RawMessages : WsMessage(w, raw)

ChainSpec == Init /\ [][ChainNext]_vars

\* ws.onmessage under a consumer that passes the callbacks reg
RouterMessage(w, raw, reg) ==
    /\ w \in DOMAIN ws
    /\ ws[w].state = "OPEN"
    /\ last' = [Quiet("onmessage", w) EXCEPT
                   !.cb = CallbackOf(OnMessage(raw, reg)),
                   !.msg = raw,
                   !.reg = reg,
                   !.out = OnMessage(raw, reg),
                   !.afterBad = last.op = "onmessage" /\ last.w = w
                                /\ last.msg.bad]
    /\ UNCHANGED <<hookVars, hookHistory, bookVars, bookHistory>>

\* the hook left alone, under every choice of callbacks and every message
RouterNext ==
    \/ \E w \in DOMAIN ws : WsOpen(w)
    \/ \E w \in DOMAIN ws : WsClose(w)
    \/ \E t \in timers : TimerFire(t, MaxRouterWs)
    \/ \E w \in DOMAIN ws, raw \in RouterMessages, reg \in Registrations :
           RouterMessage(w, raw, reg)

RouterSpec == Init /\ [][RouterNext]_vars

(* ------------------------- OrderBook's handlers ------------------------ *)

\* ws.onmessage with OrderBook's onDepthUpdate as the depth callback
AppMessage(w, raw) ==
    /\ Deliver(w, raw)
    /\ IF Routed(raw) = "depth"
       THEN /\ Len(history) <= MaxMsgs
            /\ OnDepthUpdate(Unwrap(raw.json))
       ELSE UNCHANGED <<bookVars, bookHistory>>

\* a display frame: the requested frame callbacks run
FrameTick ==
    /\ raf' = 0
    /\ pending' = IF raf > 0 THEN FrameCallbackPending ELSE pending
    /\ version' = IF mounted THEN version + raf ELSE version
    /\ calls' = 0
    /\ dirty' = IF raf > 0 THEN FALSE ELSE dirty
    /\ last' = [Quiet("tick", 0) EXCEPT !.fired = raf, !.calls = calls]
    /\ UNCHANGED <<hookVars, bidsRef, asksRef, bids, asks, memoVersion,
                   hookHistory, history>>

\* OrderBook renders again: the useMemo pair, then the effects.  onDepthUpdate
\* and close are new functions in every render, so both effects run again:
\* the cleanups in declaration order (the connection effect's, then the
\* previous render's close), then the connection effect's body.
Render ==
    /\ Rerun(AppMaxRuns, AppMaxWs)
    /\ bids' = IF version # memoVersion
               THEN MapToSortedArray(bidsRef, "bids", DepthLimit) ELSE bids
    /\ asks' = IF version # memoVersion
               THEN MapToSortedArray(asksRef, "asks", DepthLimit) ELSE asks
    /\ memoVersion' = version
    /\ Commit(EffectSetup(CloseFn(EffectCleanup(Cur)), run + 1))
    /\ UNCHANGED <<bidsRef, asksRef, version, pending, raf, bookHistory>>

\* a render React owes to setVersion
StateRender == version # memoVersion /\ Render

\* a render for any other reason: the parent rendered, a row was hovered
OtherRender == version = memoVersion /\ Render

\* OrderBook unmounts: both cleanups run
AppUnmount ==
    /\ mounted
    /\ Commit(CloseFn(EffectCleanup(Cur)))
    /\ mounted' = FALSE
    /\ last' = Quiet("unmount", wsRef)
    /\ UNCHANGED <<backoffRef, run, timers, bookVars, hookHistory, bookHistory>>

\* OrderBook with its useBinanceSocket
AppNext ==
    \/ \E w \in DOMAIN ws : WsOpen(w)
    \/ \E w \in DOMAIN ws : WsClose(w)
    \/ \E t \in timers : TimerFire(t, AppMaxWs)
    \/ StateRender
    \/ OtherRender
    \/ AppUnmount
    \/ \E w \in DOMAIN ws, raw \in RawMessages : AppMessage(w, raw)
    \/ FrameTick

AppSpec == Init /\ [][AppNext]_vars

(* --------------------------- fair scheduling --------------------------- *)

\* a pending timer fires
TimerStep == \E t \in timers : TimerFire(t, MaxWs)

\* the hook, with timers that fire
LiveSpec == Spec /\ WF_vars(TimerStep)

\* OrderBook, with display frames that keep coming
AppLiveSpec == AppSpec /\ WF_vars(FrameTick)

(* ------------------------------ the claims ----------------------------- *)

RECURSIVE Pow(_, _)
Pow(b, k) == IF k = 0 THEN 1 ELSE b * Pow(b, k - 1)

\* min(500 * 1.8^(N-1), 30000), with 1.8 = 9/5
ExpectedDelay(N) ==
    IF Pow(9, N - 1) > (BackoffCeiling \div InitialBackoff) * Pow(5, N - 1)
    THEN FromInt(BackoffCeiling)
    ELSE Frac(InitialBackoff * Pow(9, N - 1), Pow(5, N - 1))

FirstDelays == <<500, 900, 1620, 2916>>

ScheduledLast == last.op = "onclose" /\ last.sched

\* C1: in a run of N >= 1 consecutive unexpected closes with no onopen in
\* between and no shutdown, the N-th reconnect timer's delay is
\* min(500 * 1.8^(N-1), 30000); the first four are 500, 900, 1620, 2916, and
\* no delay exceeds 30000.
C1_BackoffSchedule ==
    /\ \A t \in timers : FracLeq(t.delay, FromInt(BackoffCeiling))
    /\ ScheduledLast => last.delay = ExpectedDelay(last.preFails + 1)
    /\ (ScheduledLast /\ last.preFails < Len(FirstDelays))
          => last.delay = FromInt(FirstDelays[last.preFails + 1])

\* the eighth failure in a row is the first one delayed by the ceiling
C1_Witness ==
    /\ ScheduledLast
    /\ last.preFails = 7
    /\ last.delay = FromInt(BackoffCeiling)

\* C2: after any transport reached Open, the next unexpected close that
\* schedules a reconnect schedules it with a delay of exactly 500, however
\* many failures preceded the Open.
C2_ResetOnOpen ==
    (ScheduledLast /\ last.preOpened >= 0)
        => last.delay = FromInt(InitialBackoff)

\* two failures, then an Open, then the close that is delayed by 500
C2_Witness ==
    /\ ScheduledLast
    /\ last.preOpened >= 2
    /\ last.delay = FromInt(InitialBackoff)

\* C3: a reconnect timer that was pending when close() was called constructs
\* no WebSocket when it fires.
C3_NoConnectAfterClose ==
    ~(last.op = "timer" /\ last.late /\ last.made # 0)

\* C4: when close() returns, no transport the hook created is still Open.
C4_CloseClosesOpen ==
    last.op = "close" => \A w \in DOMAIN ws : ws[w].state # "OPEN"

\* C5: once close() has been called the closed-by-caller flag stays set, and
\* no later handler of the hook instance (a close event, a timer, a re-run of
\* the connection effect) constructs a transport or schedules a reconnect.
C5_ClosePermanent ==
    closeCalled =>
        /\ closedByUser
        /\ last.preCalled => (last.made = 0 /\ ~last.sched)

\* C6: a close event handled while the closed-by-caller flag is set schedules
\* no reconnect timer and leaves the backoff unchanged; it only clears the
\* transport reference (the transport itself becoming CLOSED).
C6_ClosedCloseIsInert ==
    [][\A w \in DOMAIN ws :
          (ws[w].state # "CLOSED" /\ ws'[w].state = "CLOSED" /\ closedByUser)
          => /\ timers' = timers
             /\ backoffRef' = backoffRef
             /\ wsRef' = 0
             /\ closedByUser' = closedByUser
             /\ run' = run
             /\ mounted' = mounted
             /\ ws' = [ws EXCEPT ![w].state = "CLOSED"]]_vars

\* close() was called on a live transport, and its close event was handled
C6_Witness ==
    /\ last.op = "onclose"
    /\ last.was = "CLOSING"
    /\ last.preClosed
    /\ last.preCalled
    /\ ~last.sched
    /\ wsRef = 0

\* the current effect run has a transport that is not closed, or a timer
HasStreamOrTimer ==
    \/ \E w \in DOMAIN ws : ws[w].run = run /\ ws[w].state # "CLOSED"
    \/ \E t \in timers : t.run = run

\* the current effect run waits for its reconnect timer
Waiting == mounted /\ \E t \in timers : t.run = run

\* C7: a close of the manager's Connecting or Open transport, the manager
\* not shut down, schedules exactly one reconnect timer; timers firing and
\* no shutdown intervening, the timer fires and constructs a new transport;
\* the manager is never left without a transport and without a pending
\* reconnect.
C7_AlwaysReconnects ==
    /\ [](mounted /\ ~closedByUser => HasStreamOrTimer)
    /\ [][\A w \in DOMAIN ws :
            (/\ ws[w].state \in {"CONNECTING", "OPEN"}
             /\ ws'[w].state = "CLOSED"
             /\ ~closedByUser
             /\ Mounted(ws[w].run))
            => /\ timers \subseteq timers'
               /\ Cardinality(timers' \ timers) = 1]_vars
    /\ [][\A t \in timers :
            (Mounted(t.run) /\ mounted' /\ run' = run
             /\ ~\E u \in timers' : u.by = t.by)
            => /\ Len(ws') = Len(ws) + 1
               /\ ws'[Len(ws')] = NewWs(t.run)]_vars
    /\ Waiting ~> (~Waiting \/ Len(ws) >= MaxWs)

\* a connection attempt failed, a timer was scheduled, it fired and connected
C7_Witness ==
    /\ last.op = "timer"
    /\ last.made # 0
    /\ ws[last.w].state = "CLOSED"
    /\ ~closedByUser
    /\ mounted

\* C8: at most one frame callback is pending; a scheduleRender call made
\* while one is pending requests nothing; K >= 1 calls between two frame
\* ticks make the callback run exactly once at the next tick, K = 0 never.
C8_Coalesced ==
    /\ raf <= 1
    /\ pending <=> raf = 1
    /\ calls >= 1 <=> raf = 1
    /\ last.op = "tick" => last.fired = (IF last.calls >= 1 THEN 1 ELSE 0)

\* two depth updates in one frame, one callback
C8_Witness ==
    /\ last.op = "tick"
    /\ last.calls >= 2
    /\ last.fired = 1

\* the memoised rows are not those of the ledgers as they are now
Stale ==
    \/ bids # MapToSortedArray(bidsRef, "bids", DepthLimit)
    \/ asks # MapToSortedArray(asksRef, "asks", DepthLimit)

\* C9: frame ticks occurring, every depth update applied to the ledgers is
\* followed by a frame callback (the version increment that makes React
\* render); once no callback is owed and the mounted OrderBook has rendered
\* its latest version, its rows are those of the ledgers in their final state.
C9_EventuallyDelivered ==
    /\ [](mounted /\ ~dirty /\ version = memoVersion => ~Stale)
    /\ dirty ~> ~dirty

\* a burst of two updates, coalesced, then rendered in its final state
C9_Witness ==
    /\ last.op = "rerun"
    /\ Len(history) = 3
    /\ ~dirty
    /\ bids # <<>>
    /\ bids = MapToSortedArray(history[3].b, "bids", DepthLimit)
    /\ asks = MapToSortedArray(history[3].a, "asks", DepthLimit)

\* C10: the bid rows and the ask rows of a render are those of the ledgers
\* after some whole number of depth messages: each message is seen with all
\* of its bid and ask changes or with none.
C10_NoTornSnapshot ==
    \E k \in 1..Len(history) :
        /\ bids = MapToSortedArray(history[k].b, "bids", DepthLimit)
        /\ asks = MapToSortedArray(history[k].a, "asks", DepthLimit)

\* a render that shows both sides of a message
C10_Witness ==
    /\ last.op = "rerun"
    /\ bids # <<>>
    /\ asks # <<>>

(* C11.  For every message JSON.parse accepts, ws.onmessage looks at the    *)
(* data of an envelope (an object with a stream field) and at the message  *)
(* itself otherwise, and calls at most one callback: onAggTrade once with  *)
(* that payload iff its e is 'aggTrade' and onAggTrade was passed,         *)
(* onDepthUpdate once with it iff its e is 'depthUpdate' and onDepthUpdate *)
(* was passed, nothing for any other or missing e; no exception leaves the *)
(* handler.                                                                *)
PayloadOf(j) ==
    IF "stream" \in DOMAIN j
    THEN IF "data" \in DOMAIN j THEN j.data ELSE Undefined
    ELSE j

KindOf(p) == IF "e" \in DOMAIN p THEN p.e ELSE ""

ExpectedCalls(j, reg) ==
    IF KindOf(PayloadOf(j)) = "aggTrade" /\ reg.trade # "absent"
    THEN <<[fn |-> "onAggTrade", arg |-> PayloadOf(j)]>>
    ELSE IF KindOf(PayloadOf(j)) = "depthUpdate" /\ reg.depth # "absent"
    THEN <<[fn |-> "onDepthUpdate", arg |-> PayloadOf(j)]>>
    ELSE <<>>

C11_RouterDispatch ==
    last.op = "onmessage" /\ ~last.msg.bad =>
        /\ last.out.calls = ExpectedCalls(last.msg.json, last.reg)
        /\ Len(last.out.calls) <= 1
        /\ ~last.out.escaped

\* an enveloped trade reached onAggTrade, with both callbacks passed
C11_Witness ==
    /\ last.op = "onmessage"
    /\ ~last.msg.bad
    /\ "stream" \in DOMAIN last.msg.json
    /\ last.reg = [trade |-> "returns", depth |-> "returns"]
    /\ last.out.calls = <<[fn |-> "onAggTrade", arg |-> [e |-> "aggTrade"]]>>

(* C12.  A message JSON.parse rejects is logged and nothing else: no        *)
(* callback runs, no exception leaves the handler, the transport stays     *)
(* OPEN, and backoffRef, wsRef, closedByUser and the pending timers are    *)
(* unchanged; the next message of the same transport that parses is        *)
(* dispatched as any other.                                                *)
C12_BadMessageHarmless ==
    /\ [][last'.op = "onmessage" /\ last'.msg.bad =>
            /\ last'.out = [calls |-> <<>>, logged |-> TRUE, escaped |-> FALSE]
            /\ ws'[last'.w].state = "OPEN"
            /\ UNCHANGED <<ws, wsRef, backoffRef, closedByUser, timers>>]_vars
    /\ [](last.op = "onmessage" /\ last.afterBad /\ ~last.msg.bad =>
            /\ last.out.calls = ExpectedCalls(last.msg.json, last.reg)
            /\ ~last.out.escaped)

\* a depth update dispatched right after a message that failed to decode
C12_Witness ==
    /\ last.op = "onmessage"
    /\ last.afterBad
    /\ ~last.msg.bad
    /\ Len(last.out.calls) = 1
    /\ last.out.calls[1].fn = "onDepthUpdate"
    /\ ws[last.w].state = "OPEN"
    /\ wsRef = last.w

(* C13.  At most one transport created by the hook instance is CONNECTING  *)
(* or OPEN, in every reachable state.                                      *)
Live(w) == ws[w].state \in {"CONNECTING", "OPEN"}

C13_SingleStream ==
    \A v, w \in DOMAIN ws : Live(v) /\ Live(w) => v = w

(* C14.  Once the cleanup of an effect run has run (a later run has        *)
(* started, or the owner has unmounted), a timer that run scheduled        *)
(* constructs no transport when it fires, and the close event of a         *)
(* transport that run created schedules no timer and leaves backoffRef as  *)
(* it is.                                                                  *)
CleanedUp(r) == r < run \/ ~mounted

C14_CleanedUpRunIsInert ==
    /\ [](last.op = "timer" /\ CleanedUp(ws[last.w].run) => last.made = 0)
    /\ [][last'.op = "onclose" /\ CleanedUp(ws[last'.w].run) =>
             ~last'.sched /\ UNCHANGED <<timers, backoffRef>>]_vars

\* a timer of the first run fired after the effect had re-run, and made
\* nothing, while the second run's transport was live
C14_Witness ==
    /\ last.op = "timer"
    /\ ws[last.w].run = 1
    /\ run = 2
    /\ mounted
    /\ ~closedByUser
    /\ last.made = 0
    /\ Len(ws) = 2
    /\ ws[2].state = "OPEN"

(* C15.  The best bid and best ask OrderBook computes are the price of the *)
(* first row of that side; for a side without rows the value is not the    *)
(* number 0; the spread is best ask minus best bid when both sides have    *)
(* rows, and is not the number 0 when one of them has none.                *)
C15_BestPrices ==
    /\ bids # <<>> => TopBid = bids[1].price
    /\ asks # <<>> => TopAsk = asks[1].price
    /\ bids = <<>> => TopBid # 0
    /\ asks = <<>> => TopAsk # 0
    /\ bids # <<>> /\ asks # <<>> => SpreadShown = TopAsk - TopBid
    /\ bids = <<>> \/ asks = <<>> => SpreadShown # 0

(* C16.  Among the reconnects the latest effect run schedules one after    *)
(* the other while none of its own transports opens, the delays never      *)
(* decrease, whatever transports of earlier runs do in between.            *)
C16_BackoffNonDecreasing ==
    [][last'.op = "onclose" /\ last'.sched =>
          FracLeq(prevDelay, last'.delay)]_vars

(* C17.  wsRef.current is the live transport: whenever a transport of the  *)
(* hook instance is CONNECTING or OPEN, wsRef.current is that transport.   *)
(* In particular, as stated here: the close event of one transport never   *)
(* takes wsRef.current away from another transport that is CONNECTING or   *)
(* OPEN.                                                                   *)
C17_RefTracksLive ==
    [][last'.op = "onclose" /\ wsRef # 0 /\ wsRef # last'.w /\ Live(wsRef) =>
          wsRef' = wsRef]_vars

(* C18.  A depth update does not disturb the connection: when a depth     *)
(* message has been given to onDepthUpdate and the render it scheduled has *)
(* taken place (with the effects that follow it), the transport that      *)
(* delivered the message is still OPEN, still wsRef.current, and           *)
(* closedByUser.current is not set.                                        *)
C18_RenderKeepsConnection ==
    [][/\ StateRender
       /\ wsRef # 0
       /\ ws[wsRef].state = "OPEN"
       /\ Len(history) > 1
       => /\ ws'[wsRef].state = "OPEN"
          /\ wsRef' = wsRef
          /\ ~closedByUser']_vars

(* C19.  For every run of the connection effect, in every reachable state, *)
(* the pending timers that run scheduled and the transports it created     *)
(* that are CONNECTING or OPEN number at most one together.                *)
TimersOf(r) == {t \in timers : t.run = r}

LiveOf(r) == {w \in DOMAIN ws : ws[w].run = r /\ Live(w)}

C19_NoReconnectStorm ==
    \A r \in 1..run : Cardinality(TimersOf(r)) + Cardinality(LiveOf(r)) <= 1

\* the second run has just scheduled a reconnect, its transports before
\* that all closed, while a timer of the first run is still pending and a
\* transport of the first run is still CONNECTING
C19_Witness ==
    /\ run = 2
    /\ last.op = "onclose"
    /\ last.sched
    /\ Cardinality(TimersOf(2)) = 1
    /\ LiveOf(2) = {}
    /\ Cardinality(TimersOf(1)) + Cardinality(LiveOf(1)) = 1
    /\ Len(ws) >= 3

====
